---- MODULE Spec2Model ----
(***************************************************************************)
(* PageRank (pagerank.py): the transition model, the sampling estimator    *)
(* and the iterative estimator, as one state machine.                      *)
(*                                                                         *)
(* Numbers.  A probability or rank (a Python float in [0, 1]) is a binary  *)
(* fixed-point number: an integer count of units of 1/ONE, with            *)
(* ONE = 2^FracBits.  Every float division and product rounds to the       *)
(* nearest unit (FDiv, FracMul), where the float operation rounds to the   *)
(* nearest double.  Sums of units are exact: the rounding of a float       *)
(* addition is not modelled.  A value that is exact here (a multiple of    *)
(* 2^-FracBits) is exact as a double; a quotient such as 1/3 is rounded in *)
(* both.  The damping factor is the fraction damping/DampDen, and          *)
(* 1 - damping_factor is exact.                                            *)
(***************************************************************************)
EXTENDS Integers, FiniteSets, Sequences, TLC

\* ---- bounds of the model ----
\* pages of a corpus, links of a corpus, and the largest sample count n
MaxPages == 3
MaxLinks == 4
MaxSamples == 3
\* pages of a corpus when iterate_pagerank is run on its own (IterSpec)
LoopPages == 4

\* ---- number representation ----
\* fractional bits kept of a float
FracBits == 22
ONE == 2^FracBits
DampDen == 20
\* damping factors 0, 0.5, 0.85 (DAMPING) and 1, as numerators over DampDen
Dampings == {0, 10, 17, DampDen}
\* the convergence threshold 0.001
Threshold == (2 * ONE + 1000) \div 2000

Abs(x) == IF x < 0 THEN -x ELSE x

\* float division a / b, rounded to the nearest unit (b > 0, a >= 0)
FDiv(a, b) == (2 * a + b) \div (2 * b)

\* float product (f/DampDen) * x of a damping-like factor and a value
FracMul(f, x) == FDiv(f * x, DampDen)

RECURSIVE SumOver(_, _)
SumOver(f, S) ==
    IF S = {} THEN 0
    ELSE LET p == CHOOSE q \in S : TRUE
         IN  f[p] + SumOver(f, S \ {p})

Total(f) == SumOver(f, DOMAIN f)

\* ---- the link graph ----
PageSet(c) == DOMAIN c
NumPages(c) == Cardinality(DOMAIN c)

\* every possible link among N pages: no page links to itself
Edges(N) == {e \in (1..N) \X (1..N) : e[1] # e[2]}

RECURSIVE LinkSets(_, _)
LinkSets(N, k) ==
    IF k = 0 THEN {{}}
    ELSE LET smaller == LinkSets(N, k - 1)
         IN  smaller \cup {s \cup {e} : s \in smaller, e \in Edges(N)}

\* the graphs crawl() can return: each page maps to the set of other corpus
\* pages it links to
Corpora(maxN) ==
    UNION {{[p \in 1..N |-> {e[2] : e \in {l \in links : l[1] = p}}] :
                links \in LinkSets(N, MaxLinks)} : N \in 0..maxN}

\* ---- transition_model ----
\* transition_model with the uniform share left unscaled on a page that has
\* links (the `random_probability * random_factor` step dropped)
transition_model_unscaled(c, pg0, d) ==
    LET num_outgoing == Cardinality(c[pg0])
        uniform == FDiv(ONE, NumPages(c))
        outgoing_probability ==
            IF num_outgoing > 0 THEN FracMul(d, FDiv(ONE, num_outgoing))
            ELSE 0
    IN  [pg \in PageSet(c) |->
            uniform + (IF pg \in c[pg0] THEN outgoing_probability ELSE 0)]

\* transition_model with the uniform share scaled by 1 - damping even on a
\* page without links (the `if num_outgoing > 0` guard dropped)
transition_model_damped_dead_end(c, pg0, d) ==
    LET random_factor == DampDen - d
        num_outgoing == Cardinality(c[pg0])
        random_probability == FracMul(random_factor, FDiv(ONE, NumPages(c)))
        outgoing_probability ==
            IF num_outgoing > 0 THEN FracMul(d, FDiv(ONE, num_outgoing))
            ELSE 0
    IN  [pg \in PageSet(c) |->
            random_probability
              + (IF pg \in c[pg0] THEN outgoing_probability ELSE 0)]

\* The distribution over the next page, in units of 1/ONE.
transition_model(c, pg0, d) ==
    LET random_factor == DampDen - d
        num_outgoing == Cardinality(c[pg0])
        uniform == FDiv(ONE, NumPages(c))
        random_probability ==
            IF num_outgoing > 0 THEN FracMul(random_factor, uniform)
            ELSE uniform
        outgoing_probability ==
            IF num_outgoing > 0 THEN FracMul(d, FDiv(ONE, num_outgoing))
            ELSE 0
    IN  [pg \in PageSet(c) |->
            random_probability
              + (IF pg \in c[pg0] THEN outgoing_probability ELSE 0)]

\* ---- sample_pagerank helpers ----
\* pg_ranks[k] of a defaultdict(lambda: 0)
DefaultGet(f, k) == IF k \in DOMAIN f THEN f[k] ELSE 0

\* CountVisit that stores 1 instead of adding 1 (`pg_ranks[k] = 1`)
CountVisit_overwrite(f, k) ==
    [q \in DOMAIN f \cup {k} |-> IF q = k THEN 1 ELSE f[q]]

\* pg_ranks[k] = pg_ranks[k] + 1 on a defaultdict: the key is created
CountVisit(f, k) ==
    [q \in DOMAIN f \cup {k} |-> IF q = k THEN DefaultGet(f, k) + 1 ELSE f[q]]

\* random.choices(keys, weights): the pages a draw can return
Drawable(dist) == {pg \in DOMAIN dist : dist[pg] > 0}

\* for pg in pg_ranks: pg_ranks[pg] /= n
DivideCounts(f, m) == [pg \in DOMAIN f |-> FDiv(f[pg] * ONE, m)]

\* ---- iterate_pagerank helpers ----
outgoing_counts(c) == [pg \in PageSet(c) |-> Cardinality(c[pg])]

source_links(c, pg) == {src \in PageSet(c) : pg \in c[src]}

InitialRanks(c) == [pg \in PageSet(c) |-> FDiv(ONE, NumPages(c))]

base_probability(c, d) == FDiv(FracMul(DampDen - d, ONE), NumPages(c))

\* new_rank of page pg computed from the rank table ranks
NewRank(c, d, ranks, pg) ==
    LET shares == [src \in source_links(c, pg) |->
                      FDiv(ranks[src], outgoing_counts(c)[src])]
        raw_source_sum == Total(shares)
    IN  base_probability(c, d) + FracMul(d, raw_source_sum)

\* UpdateDone that overwrites the flag with the last page's verdict
\* (`done = abs(new_rank - curr_rank) <= 0.001`)
UpdateDone_last_page(flag, new_rank, curr_rank) ==
    Abs(new_rank - curr_rank) <= Threshold

\* UpdateDone that clears the flag on any change at all, however small, or
\* none (`abs(new_rank - curr_rank) >= 0`)
UpdateDone_any_change(flag, new_rank, curr_rank) ==
    IF Abs(new_rank - curr_rank) >= 0 THEN FALSE ELSE flag

\* if abs(new_rank - curr_rank) > 0.001: done = False
UpdateDone(flag, new_rank, curr_rank) ==
    IF Abs(new_rank - curr_rank) > Threshold THEN FALSE ELSE flag

\* ---- state ----
VARIABLES
    corpus,     \* the link graph handed to the estimators
    damping,    \* damping_factor, numerator over DampDen
    call,       \* which function is running: "none", "transition", "sample", "iterate"
    pc,         \* "idle", "sampling", "while", "for", "returned", "error"
    page,       \* transition_model's page argument
    n,          \* sample_pagerank's n argument
    curr_pg,    \* sample_pagerank: the current page
    i,          \* sample_pagerank: iterations of `for _ in range(n)` done
    pg_ranks,   \* the estimators' pg_ranks dictionary
    done,       \* iterate_pagerank: the convergence flag
    idx,        \* iterate_pagerank: position of `for pg in corpus`
    snap,       \* history: pg_ranks as it was when the current pass began
    result      \* the returned mapping, once pc = "returned"

vars == <<corpus, damping, call, pc, page, n, curr_pg, i, pg_ranks, done,
          idx, snap, result>>

Init ==
    /\ corpus \in Corpora(MaxPages)
    /\ damping \in Dampings
    /\ call = "none"
    /\ pc = "idle"
    /\ page = 0
    /\ n = 0
    /\ curr_pg = 0
    /\ i = 0
    /\ pg_ranks = <<>>
    /\ done = FALSE
    /\ idx = 0
    /\ snap = <<>>
    /\ result = <<>>

\* ---- transition_model(corpus, page, damping_factor) ----
CallTransition ==
    /\ pc = "idle"
    /\ call' = "transition"
    /\ \E pg \in 1..MaxPages :
         /\ page' = pg
         /\ IF pg \in PageSet(corpus)
            THEN /\ result' = transition_model(corpus, pg, damping)
                 /\ pc' = "returned"
            ELSE /\ result' = result        \* corpus[page] raises KeyError
                 /\ pc' = "error"
    /\ UNCHANGED <<corpus, damping, n, curr_pg, i, pg_ranks, done, idx, snap>>

\* ---- sample_pagerank(corpus, damping_factor, n) ----
\* SampleStart that skips the initial choice on an empty corpus instead of
\* failing (`random.choice(keys) if keys else None`)
SampleStart_guarded_choice ==
    /\ pc = "idle"
    /\ call' = "sample"
    /\ \E m \in -1..MaxSamples : n' = m
    /\ pg_ranks' = <<>>
    /\ i' = 0
    /\ pc' = "sampling"
    /\ IF PageSet(corpus) = {}
       THEN curr_pg' = curr_pg
       ELSE curr_pg' \in PageSet(corpus)
    /\ UNCHANGED <<corpus, damping, page, done, idx, snap, result>>

\* the call up to the first loop test: the empty defaultdict and the
\* initial random.choice
SampleStart ==
    /\ pc = "idle"
    /\ call' = "sample"
    /\ \E m \in -1..MaxSamples : n' = m
    /\ pg_ranks' = <<>>
    /\ i' = 0
    /\ IF PageSet(corpus) = {}
       THEN /\ pc' = "error"               \* random.choice([]) raises IndexError
            /\ curr_pg' = curr_pg
       ELSE /\ pc' = "sampling"
            /\ curr_pg' \in PageSet(corpus)
    /\ UNCHANGED <<corpus, damping, page, done, idx, snap, result>>

\* one iteration of `for _ in range(n)`
SampleStep ==
    /\ pc = "sampling"
    /\ i < n
    /\ \E pg \in Drawable(transition_model(corpus, curr_pg, damping)) :
         /\ curr_pg' = pg
         /\ pg_ranks' = CountVisit(pg_ranks, pg)
    /\ i' = i + 1
    /\ UNCHANGED <<corpus, damping, call, pc, page, n, done, idx, snap, result>>

\* range(n) is exhausted: divide the counts and return
SampleReturn ==
    /\ pc = "sampling"
    /\ ~(i < n)
    /\ pg_ranks' = DivideCounts(pg_ranks, n)
    /\ result' = pg_ranks'
    /\ pc' = "returned"
    /\ UNCHANGED <<corpus, damping, call, page, n, curr_pg, i, done, idx, snap>>

\* ---- iterate_pagerank(corpus, damping_factor) ----
\* everything before the while loop
IterSetup ==
    /\ pc = "idle"
    /\ call' = "iterate"
    /\ done' = FALSE
    /\ IF NumPages(corpus) = 0
       THEN /\ pc' = "error"               \* random_factor / 0
            /\ pg_ranks' = <<>>
       ELSE /\ pc' = "while"
            /\ pg_ranks' = InitialRanks(corpus)
    /\ UNCHANGED <<corpus, damping, page, n, curr_pg, i, idx, snap, result>>

\* the test of `while not done`
IterWhile ==
    /\ pc = "while"
    /\ IF ~done
       THEN /\ done' = TRUE
            /\ idx' = 1
            /\ snap' = pg_ranks
            /\ pc' = "for"
            /\ result' = result
       ELSE /\ result' = pg_ranks
            /\ pc' = "returned"
            /\ UNCHANGED <<done, idx, snap>>
    /\ UNCHANGED <<corpus, damping, call, page, n, curr_pg, i, pg_ranks>>

\* IterPage that reads every source's rank from the table as it was when
\* the pass began (a double-buffered update)
IterPage_from_snapshot ==
    /\ pc = "for"
    /\ LET pg == idx
           curr_rank == pg_ranks[pg]
           new_rank == NewRank(corpus, damping, snap, pg)
       IN  /\ done' = UpdateDone(done, new_rank, curr_rank)
           /\ pg_ranks' = [pg_ranks EXCEPT ![pg] = new_rank]
    /\ idx' = idx + 1
    /\ pc' = IF idx = NumPages(corpus) THEN "while" ELSE "for"
    /\ UNCHANGED <<corpus, damping, call, page, n, curr_pg, i, snap, result>>

\* one iteration of `for pg in corpus`: the page is updated in place
IterPage ==
    /\ pc = "for"
    /\ LET pg == idx
           curr_rank == pg_ranks[pg]
           new_rank == NewRank(corpus, damping, pg_ranks, pg)
       IN  /\ done' = UpdateDone(done, new_rank, curr_rank)
           /\ pg_ranks' = [pg_ranks EXCEPT ![pg] = new_rank]
    /\ idx' = idx + 1
    /\ pc' = IF idx = NumPages(corpus) THEN "while" ELSE "for"
    /\ UNCHANGED <<corpus, damping, call, page, n, curr_pg, i, snap, result>>

\* the same start, with corpora of up to LoopPages pages
IterInit ==
    /\ corpus \in Corpora(LoopPages)
    /\ damping \in Dampings
    /\ call = "none"
    /\ pc = "idle"
    /\ page = 0
    /\ n = 0
    /\ curr_pg = 0
    /\ i = 0
    /\ pg_ranks = <<>>
    /\ done = FALSE
    /\ idx = 0
    /\ snap = <<>>
    /\ result = <<>>

IterNext == IterSetup \/ IterWhile \/ IterPage

Next ==
    \/ CallTransition
    \/ SampleStart
    \/ SampleStep
    \/ SampleReturn
    \/ IterSetup
    \/ IterWhile
    \/ IterPage

Spec == Init /\ [][Next]_vars

\* iterate_pagerank alone; the interpreter keeps running the loop
IterSpec == IterInit /\ [][IterNext]_vars /\ WF_vars(IterNext)

\* ======================= transition_model =======================

\* C1: for every valid graph, every page of it and every damping in [0, 1],
\* transition_model returns a mapping whose keys are exactly the corpus
\* pages (N entries), whose values are all non-negative and whose values
\* sum to 1 (within the rounding of the entries: at most two units each).
C1_DistributionTotalsOne ==
    (call = "transition" /\ pc = "returned") =>
        /\ DOMAIN result = PageSet(corpus)
        /\ Cardinality(DOMAIN result) = NumPages(corpus)
        /\ \A q \in DOMAIN result : result[q] >= 0
        /\ Abs(Total(result) - ONE) <= 2 * NumPages(corpus)

C1_Witness ==
    /\ call = "transition" /\ pc = "returned"
    /\ NumPages(corpus) = 3
    /\ Cardinality(corpus[page]) = 1
    /\ damping = 17
    /\ \E q \in DOMAIN result : result[q] > FDiv(ONE, 2)

\* The reference value of page q, rounded once to the nearest unit:
\* (1-d)/N + d/k for a linked page and (1-d)/N for another page, as the
\* single fraction ((DampDen-d)*k + d*N) / (DampDen*N*k), or
\* (DampDen-d)*k / (DampDen*N*k).
ReferenceProbability(c, pg0, d, q) ==
    LET N == NumPages(c)
        k == Cardinality(c[pg0])
    IN  FDiv(ONE * ((DampDen - d) * k + (IF q \in c[pg0] THEN d * N ELSE 0)),
             DampDen * N * k)

\* the corpus of test_transition_model
TestCorpus == <<{2, 3}, {3}, {2}>>

\* C2: transition_model gives every corpus page the reference value (to
\* within the rounding of its two quotients and two products, two units):
\* (1-d)/N + d/k for a page the current page links to, (1-d)/N for any
\* other page, and the float 1/N for every page, whatever the damping, when
\* the current page has no links; for the test corpus, page 1 and damping
\* 0.85 the result is {1: 0.05, 2: 0.475, 3: 0.475}, to the same two units.
C2_ReferenceValues ==
    (call = "transition" /\ pc = "returned") =>
        /\ (corpus[page] # {}) =>
              \A q \in PageSet(corpus) :
                 Abs(result[q]
                       - ReferenceProbability(corpus, page, damping, q)) <= 2
        /\ (corpus[page] = {}) =>
              \A q \in PageSet(corpus) :
                 2 * Abs(result[q] * NumPages(corpus) - ONE) <= NumPages(corpus)
        /\ (corpus = TestCorpus /\ page = 1 /\ damping = 17) =>
              /\ Abs(result[1] - FDiv(ONE, 20)) <= 2
              /\ Abs(result[2] - FDiv(19 * ONE, 40)) <= 2
              /\ Abs(result[3] - FDiv(19 * ONE, 40)) <= 2

C2_Witness ==
    /\ call = "transition" /\ pc = "returned"
    /\ corpus = TestCorpus /\ page = 1 /\ damping = 17
    /\ Abs(result[1] - FDiv(ONE, 20)) <= 2
    /\ result[2] = result[3]

\* ======================= sample_pagerank =======================

\* C3: for every non-empty valid graph, damping in [0, 1] and n >= 1, the
\* mapping sample_pagerank returns has an entry for every corpus page: a
\* page never drawn is present with rank 0, not absent.
C3_EveryPagePresent ==
    (call = "sample" /\ pc = "returned" /\ NumPages(corpus) >= 1 /\ n >= 1) =>
        /\ DOMAIN result = PageSet(corpus)
        /\ \A q \in PageSet(corpus) : result[q] >= 0

\* the visit counter of page q, before the counts are divided
Visits(f, q) == DefaultGet(f, q)

\* C4 as stated, at the return: n steps were taken, every returned rank is
\* count/n (as a float) within [0, 1], and the returned ranks sum to
\* exactly 1.
C4_SumExactlyOne ==
    (call = "sample" /\ pc = "returned" /\ n >= 1) =>
        /\ i = n
        /\ \A q \in DOMAIN result :
              /\ 0 <= result[q] /\ result[q] <= ONE
              /\ \E cnt \in 1..n : result[q] = FDiv(cnt * ONE, n)
        /\ Total(result) = ONE

\* C4 as amended: along every sequence of draws, each sampling step
\* increments exactly one visit counter, that of the page just drawn; so
\* the counts total the number of steps taken, n steps are taken, every
\* returned rank is the float count/n within [0, 1], and the returned ranks
\* sum to 1 up to the rounding of the divisions (half a unit per returned
\* entry), not always to exactly 1.
C4_CountsTotalN ==
    /\ [][(call = "sample" /\ pc = "sampling" /\ i' = i + 1) =>
            /\ curr_pg' \in PageSet(corpus)
            /\ Visits(pg_ranks', curr_pg') = Visits(pg_ranks, curr_pg') + 1
            /\ \A q \in PageSet(corpus) \ {curr_pg'} :
                  Visits(pg_ranks', q) = Visits(pg_ranks, q)]_vars
    /\ []((call = "sample" /\ pc = "sampling") =>
            /\ Total(pg_ranks) = i
            /\ (n >= 1 => i <= n))
    /\ []((call = "sample" /\ pc = "returned" /\ n >= 1) =>
            /\ i = n
            /\ \A q \in DOMAIN result :
                  /\ 0 <= result[q] /\ result[q] <= ONE
                  /\ \E cnt \in 1..n : result[q] = FDiv(cnt * ONE, n)
            /\ 2 * Abs(Total(result) - ONE) <= Cardinality(DOMAIN result))

C4_Witness ==
    /\ call = "sample" /\ pc = "returned"
    /\ n = 3
    /\ Cardinality(DOMAIN result) = 3
    /\ Total(result) # ONE

\* C6: on an empty graph sample_pagerank fails at the call: it takes no
\* sampling step and returns no rank mapping.
C6_EmptyGraphFails ==
    (call = "sample" /\ NumPages(corpus) = 0) =>
        /\ pc = "error"
        /\ i = 0
        /\ pg_ranks = <<>>

C6_Witness ==
    call = "sample" /\ NumPages(corpus) = 0 /\ pc = "error" /\ n = 3

\* C7: sample_pagerank called on a non-empty valid graph with n <= 0 ends
\* in an error; it never returns a rank mapping.
C7_InvalidNRejected ==
    (call = "sample" /\ NumPages(corpus) >= 1 /\ n <= 0) => pc # "returned"

\* ======================= iterate_pagerank =======================

\* the tolerance 1e-6 on the sum of the iterative ranks
SumTolerance == ONE \div (1000 * 1000)

\* C5: for any valid graph (pages without links included) and any damping
\* in [0, 1], the ranks iterate_pagerank returns each lie in [0, 1] and sum
\* to 1.0 within 1e-6.
C5_RanksConserved ==
    (call = "iterate" /\ pc = "returned") =>
        /\ \A q \in DOMAIN result : 0 <= result[q] /\ result[q] <= ONE
        /\ Abs(Total(result) - ONE) <= SumTolerance

\* a pass over all pages has begun (and pc tells whether it has ended)
PassBegun == call = "iterate" /\ snap # <<>>

\* the rank table a double-buffered pass would produce from snap
JacobiPass == [q \in PageSet(corpus) |-> NewRank(corpus, damping, snap, q)]

\* C8 as stated: every rank read in a pass is the value of the completed
\* previous pass, so the table after each pass equals that of a
\* double-buffered reference model.
C8_JacobiUpdate ==
    (PassBegun /\ pc = "while") => pg_ranks = JacobiPass

\* the table page q's update reads in the current pass: pages before q in
\* the corpus order already hold this pass's value, the others the
\* previous pass's
TableSeenBy(q) ==
    [s \in PageSet(corpus) |-> IF s < q THEN pg_ranks[s] ELSE snap[s]]

\* C8 as amended: the update is in place.  Within a pass, a page already
\* visited holds (1-d)/N + d * sum of rank(s)/outdegree(s) with rank(s) the
\* value written earlier in the same pass for a source s that precedes it
\* in the corpus order and the previous pass's value for any other source;
\* a page not yet visited still holds the previous pass's value.
C8_InPlaceUpdate ==
    (PassBegun /\ pc \in {"for", "while"}) =>
        \A q \in PageSet(corpus) :
            IF q < idx
            THEN pg_ranks[q] = NewRank(corpus, damping, TableSeenBy(q), q)
            ELSE pg_ranks[q] = snap[q]

C8_Witness ==
    /\ PassBegun /\ pc = "while"
    /\ damping = 17
    /\ \E q \in PageSet(corpus) : Abs(pg_ranks[q] - JacobiPass[q]) > Threshold

\* no page's rank moved by more than 0.001 in the pass just run
Converged ==
    \A q \in PageSet(corpus) : Abs(pg_ranks[q] - snap[q]) <= Threshold

\* C9: iterate_pagerank returns at the end of the first pass in which every
\* page's new rank is within 0.001 of its prior rank, returning that
\* pass's ranks; after a pass in which some page moved by more than 0.001
\* it does not return and starts another pass.
C9_ReturnsWhenConverged ==
    /\ [][(PassBegun /\ pc = "while") =>
            IF Converged
            THEN pc' = "returned" /\ result' = pg_ranks
            ELSE pc' = "for" /\ idx' = 1 /\ snap' = pg_ranks]_vars
    /\ []((call = "iterate" /\ pc = "returned") =>
            Converged /\ result = pg_ranks)

C9_Witness ==
    /\ call = "iterate" /\ pc = "returned"
    /\ damping = 17
    /\ snap # InitialRanks(corpus)
    /\ result # snap

\* C10 as stated: for every non-empty valid graph and every damping in
\* [0, 1] the convergence loop eventually terminates.
C10_AlwaysTerminates ==
    (call = "iterate" /\ NumPages(corpus) >= 1) ~> (pc = "returned")

\* C10 as amended: for every non-empty valid graph and every damping in
\* [0, 1), that is below 1, the convergence loop eventually terminates.
C10_TerminatesBelowOne ==
    (call = "iterate" /\ NumPages(corpus) >= 1 /\ damping < DampDen)
        ~> (pc = "returned")

C10_Witness ==
    /\ call = "iterate" /\ pc = "returned"
    /\ damping = 17
    /\ NumPages(corpus) = 4
    /\ \E q \in PageSet(corpus) : corpus[q] = {}
    /\ 2 \in corpus[1] /\ 1 \in corpus[2]
    /\ snap # InitialRanks(corpus)

====
